---- MODULE Spec2Model ----
(***************************************************************************)
(* Conway's Game of Life terminal simulator (src/src/main.rs).             *)
(*                                                                         *)
(* The model follows main(): the board, the generation counter, the        *)
(* history map of detect_loop, the Ctrl-C flag and the position of the     *)
(* main thread inside one iteration of the main loop.  Boards keep the     *)
(* source's indexing: board[y][x] with y in 0..height-1, x in 0..width-1.  *)
(* An Option<T> is modelled as a set: {} is None and {v} is Some(v).       *)
(* Time is counted in ticks of an abstract clock (now).  Spec is the run   *)
(* with an unlimited frame rate (frame_time zero), where the clock is     *)
(* never read by the loop; SpecTimed is the paced run.  The frame counter *)
(* only feeds the figure of the FPS line and is not part of the state.    *)
(***************************************************************************)
EXTENDS Integers, Sequences, FiniteSets, TLC

VARIABLES
    width,          \* configured board width  (main.rs:94-97)
    height,         \* configured board height (main.rs:98-103)
    quiet,          \* args.quiet
    infinite,       \* args.infinite
    frame_time,     \* frame interval in ticks, 0 = unlimited (main.rs:70-75)
    now,            \* the clock read by Instant::now()
    deadline,       \* the frame deadline (main.rs:135)
    fps,            \* the "FPS: ~" line, once queued
    board,          \* Vec<Vec<bool>>, board[y][x]
    generation,     \* usize generation counter
    board_history,  \* AHashMap<Vec<bool>, usize>
    running,        \* the AtomicBool cleared by the Ctrl-C handler
    loop_start,     \* result of detect_loop while the match is evaluated
    screen,         \* the last buffer print_board queued
    stats,          \* the last (generation, population) pair print_stats queued
    message,        \* the "Game started looping from generation" line, once queued
    pc,             \* position of the main thread
    first_seen      \* history variable: generation of the first insert of each key

vars == << width, height, quiet, infinite, frame_time, now, deadline, fps,
           board, generation, board_history, running, loop_start, screen,
           stats, message, pc, first_seen >>

config == << width, height, quiet, infinite, frame_time >>

clock == << now, deadline >>

(***************************************************************************)
(* Bounds of the exploration.                                              *)
(***************************************************************************)
\* boards of at most this many cells are seeded exhaustively
MaxCells == 9
\* number of detect_loop calls explored on one map in SpecDetect
MaxCalls == 4
\* cells of the boards fed to detect_loop in SpecDetect
DetectCells == 2

\* cells of the boards seeded in SpecTimed
TimedCells == 3
\* cells of a seed of the fairly scheduled run
FairCells == 6
\* longest frame interval of SpecTimed, in ticks
MaxFrameTime == 2
\* the clock is followed up to this tick
MaxTime == 7
\* ticks by which thread::sleep may oversleep
MaxLate == 2
\* longest side of the boards of SpecZero, whose other side is 0
MaxZero == 3

None == {}
Some(v) == {v}

(***************************************************************************)
(* Boards.                                                                 *)
(***************************************************************************)
BoardsOf(w, h) == [0..(h - 1) -> [0..(w - 1) -> BOOLEAN]]

\* board.len() and board[0].len()
board_len(b) == Cardinality(DOMAIN b)
row_len(b) == Cardinality(DOMAIN b[0])

\* a board given by the set of its live cells, written <<x, y>>
BoardWith(w, h, live) ==
    [y \in 0..(h - 1) |-> [x \in 0..(w - 1) |-> <<x, y>> \in live]]

BlinkerV == BoardWith(5, 5, {<<2, 1>>, <<2, 2>>, <<2, 3>>})
BlinkerH == BoardWith(5, 5, {<<1, 2>>, <<2, 2>>, <<3, 2>>})
Block == BoardWith(4, 4, {<<1, 1>>, <<1, 2>>, <<2, 1>>, <<2, 2>>})

\* Outcomes of random_board explored at the two scenario sizes, where the
\* 2^(w*h) outcomes of fastrand::bool() are not enumerated.
ScenarioBoards(w, h) ==
    IF w = 5 /\ h = 5
    THEN {BlinkerV, BlinkerH, BoardWith(5, 5, {}),
          BoardWith(5, 5, (0..4) \X (0..4)),
          BoardWith(5, 5, {<<1, 0>>, <<2, 1>>, <<0, 2>>, <<1, 2>>, <<2, 2>>})}
    ELSE IF w = 4 /\ h = 4
    THEN {Block, BoardWith(4, 4, {}), BoardWith(4, 4, (0..3) \X (0..3)),
          BoardWith(4, 4, {<<1, 1>>, <<1, 2>>, <<2, 1>>}),
          BoardWith(4, 4, {<<0, 1>>, <<1, 1>>, <<2, 1>>})}
    ELSE {}

\* random_board: every cell is set by an independent fastrand::bool()
random_board(w, h) ==
    IF w * h <= MaxCells THEN BoardsOf(w, h) ELSE ScenarioBoards(w, h)

Dimensions ==
    {d \in (1..MaxCells) \X (1..MaxCells) : d[1] * d[2] <= MaxCells}
        \cup {<<5, 5>>, <<4, 4>>}

(***************************************************************************)
(* iterate_board (main.rs:210-249).                                        *)
(***************************************************************************)
\* variant: the offset (0, 1) mistyped as (0, 0), the cell itself
NEIGHBOR_OFFSETS_typo ==
    << <<-1, -1>>, <<-1, 0>>, <<-1, 1>>,
       << 0, -1>>,            << 0, 0>>,
       << 1, -1>>, << 1, 0>>, << 1, 1>> >>

\* (y_offset, x_offset), in the order of the source
NEIGHBOR_OFFSETS ==
    << <<-1, -1>>, <<-1, 0>>, <<-1, 1>>,
       << 0, -1>>,            << 0, 1>>,
       << 1, -1>>, << 1, 0>>, << 1, 1>> >>

\* the bounds test and the read of board[y_pos][x_pos] of one offset
neighbor_alive(b, y_pos, x_pos) ==
    /\ y_pos >= 0
    /\ x_pos >= 0
    /\ y_pos < board_len(b)
    /\ x_pos < row_len(b)
    /\ b[y_pos][x_pos]

\* the loop over NEIGHBOR_OFFSETS from offset i on
RECURSIVE count_neighbors(_, _, _, _)
count_neighbors(b, y, x, i) ==
    IF i > Len(NEIGHBOR_OFFSETS) THEN 0
    ELSE (IF neighbor_alive(b, y + NEIGHBOR_OFFSETS[i][1],
                               x + NEIGHBOR_OFFSETS[i][2])
          THEN 1 ELSE 0)
         + count_neighbors(b, y, x, i + 1)

\* variant: survival test neighbors < 5
cell_lives_survives_four(alive, neighbors) ==
    IF alive /\ neighbors > 1 /\ neighbors < 5 THEN TRUE
    ELSE IF ~alive /\ neighbors = 3 THEN TRUE
    ELSE FALSE

\* "check if cell lives"
cell_lives(alive, neighbors) ==
    IF alive /\ neighbors > 1 /\ neighbors < 4 THEN TRUE
    ELSE IF ~alive /\ neighbors = 3 THEN TRUE
    ELSE FALSE

\* new_board is filled from the old board only, then cloned into board
iterate_board(b) ==
    [y \in 0..(board_len(b) - 1) |->
        [x \in 0..(row_len(b) - 1) |->
            cell_lives(b[y][x], count_neighbors(b, y, x, 1))]]

(***************************************************************************)
(* print_board (main.rs:251-282).                                          *)
(***************************************************************************)
FullBlock == "full"
UpperHalf == "upper"
LowerHalf == "lower"
Blank == "blank"
Newline == "\n"

\* variant: the two half blocks exchanged in the match
pixels_swapped(b, y, x) ==
    IF y + 1 # board_len(b)
    THEN (IF b[y][x] /\ b[y + 1][x] THEN FullBlock
          ELSE IF b[y][x] /\ ~b[y + 1][x] THEN LowerHalf
          ELSE IF ~b[y][x] /\ b[y + 1][x] THEN UpperHalf
          ELSE Blank)
    ELSE (IF b[y][x] THEN UpperHalf ELSE Blank)

\* the glyph pushed for column x of the row pair starting at row y
pixels(b, y, x) ==
    IF y + 1 # board_len(b)
    THEN (IF b[y][x] /\ b[y + 1][x] THEN FullBlock
          ELSE IF b[y][x] /\ ~b[y + 1][x] THEN UpperHalf
          ELSE IF ~b[y][x] /\ b[y + 1][x] THEN LowerHalf
          ELSE Blank)
    ELSE (IF b[y][x] THEN UpperHalf ELSE Blank)

\* what the iterations y, y+1, ... of the outer loop push onto the buffer
RECURSIVE print_rows(_, _)
print_rows(b, y) ==
    IF y >= board_len(b) THEN << >>
    ELSE (IF y % 2 = 0
          THEN (IF y > 0 THEN << Newline >> ELSE << >>)
               \o [i \in 1..row_len(b) |-> pixels(b, y, i - 1)]
          ELSE << >>)
         \o print_rows(b, y + 1)

print_board(b) == print_rows(b, 0)

(***************************************************************************)
(* print_stats (main.rs:284-299).                                          *)
(***************************************************************************)
population(b) ==
    Cardinality({c \in (0..(row_len(b) - 1)) \X (0..(board_len(b) - 1)) :
                    b[c[2]][c[1]]})

print_stats(b, g) == << g, population(b) >>

(***************************************************************************)
(* detect_loop (main.rs:301-310).                                          *)
(***************************************************************************)
EmptyMap == [k \in {} |-> 0]

\* board.iter().flatten().cloned().collect(): the rows one after another
flatten(b) ==
    [i \in 1..(board_len(b) * row_len(b)) |->
        b[(i - 1) \div row_len(b)][(i - 1) % row_len(b)]]

\* variant: the value just stored is returned instead of the one it replaces
map_insert_returns_new(h, k, v) ==
    [ret |-> IF k \in DOMAIN h THEN Some(v) ELSE None,
     map |-> [x \in (DOMAIN h) \cup {k} |-> IF x = k THEN v ELSE h[x]]]

\* variant: a map that holds two entries at most and drops the oldest
map_insert_evicts(h, k, v) ==
    LET keep == IF k \notin DOMAIN h /\ Cardinality(DOMAIN h) >= 2
                THEN {x \in DOMAIN h : \E z \in DOMAIN h : h[z] < h[x]}
                ELSE DOMAIN h
    IN [ret |-> IF k \in DOMAIN h THEN Some(h[k]) ELSE None,
        map |-> [x \in keep \cup {k} |-> IF x = k THEN v ELSE h[x]]]

\* HashMap::insert: the value is stored under the key whether or not the key
\* was present, and the value it replaces is returned
map_insert(h, k, v) ==
    [ret |-> IF k \in DOMAIN h THEN Some(h[k]) ELSE None,
     map |-> [x \in (DOMAIN h) \cup {k} |-> IF x = k THEN v ELSE h[x]]]

\* .and_then(Some) hands the returned Option on unchanged
detect_loop(b, g, history) == map_insert(history, flatten(b), g)

(***************************************************************************)
(* main (main.rs:67-179).                                                  *)
(***************************************************************************)
\* variant: the test of args.quiet is missing
fps_report_always == IF frame_time = 0 THEN Some("FPS") ELSE fps

\* "print average fps if unlimited": the line queued once the loop is left
fps_report == IF frame_time = 0 /\ ~quiet THEN Some("FPS") ELSE fps

\* where an iteration that stays in the loop goes on: if !frame_time.is_zero()
after_arm == IF frame_time = 0 THEN "head" ELSE "pace"

\* "initialize variables": the state when the main loop is first entered
Init ==
    /\ \E d \in Dimensions : width = d[1] /\ height = d[2]
    /\ quiet \in BOOLEAN
    /\ infinite \in BOOLEAN
    /\ frame_time = 0
    /\ now = 0
    /\ deadline = now + frame_time
    /\ fps = None
    /\ board \in random_board(width, height)
    /\ generation = 0
    /\ board_history = EmptyMap
    /\ running = TRUE
    /\ loop_start = None
    /\ screen = << >>
    /\ stats = None
    /\ message = None
    /\ pc = "head"
    /\ first_seen = EmptyMap

\* the Ctrl-C handler: r.store(false), at any point of the run
CtrlC ==
    /\ pc \notin {"done", "panicked"}
    /\ running' = FALSE
    /\ UNCHANGED << config, clock, fps, board, generation, board_history, loop_start,
                    screen, stats, message, pc, first_seen >>

\* variant: the flag is not looked at in infinite mode
LoopHeadInfiniteIgnoresFlag ==
    /\ pc = "head"
    /\ pc' = IF running \/ infinite THEN "render" ELSE "done"
    /\ fps' = IF running \/ infinite THEN fps ELSE fps_report
    /\ UNCHANGED << config, clock, board, generation, board_history, running,
                    loop_start, screen, stats, message, first_seen >>

\* variant: the frame is not drawn before the statistics and the detection
LoopHeadSkipsRender ==
    /\ pc = "head"
    /\ pc' = IF running THEN "stats" ELSE "done"
    /\ fps' = IF running THEN fps ELSE fps_report
    /\ UNCHANGED << config, clock, board, generation, board_history, running,
                    loop_start, screen, stats, message, first_seen >>

\* while running.load(Ordering::SeqCst)
LoopHead ==
    /\ pc = "head"
    /\ pc' = IF running THEN "render" ELSE "done"
    /\ fps' = IF running THEN fps ELSE fps_report
    /\ UNCHANGED << config, clock, board, generation, board_history, running,
                    loop_start, screen, stats, message, first_seen >>

\* print_board(&board, &mut stdout); its first line reads board[0]
Render ==
    /\ pc = "render"
    /\ board_len(board) > 0
    /\ screen' = print_board(board)
    /\ pc' = "stats"
    /\ UNCHANGED << config, clock, fps, board, generation, board_history, running,
                    loop_start, stats, message, first_seen >>

\* print_board on a board without rows: board[0] is out of bounds, the
\* thread panics
RenderPanics ==
    /\ pc = "render"
    /\ board_len(board) = 0
    /\ pc' = "panicked"
    /\ UNCHANGED << config, clock, fps, board, generation, board_history,
                    running, loop_start, screen, stats, message, first_seen >>

\* if !args.quiet { print_stats(...) }
Stats ==
    /\ pc = "stats"
    /\ stats' = IF ~quiet THEN Some(print_stats(board, generation)) ELSE stats
    /\ pc' = "detect"
    /\ UNCHANGED << config, clock, fps, board, generation, board_history, running,
                    loop_start, screen, message, first_seen >>

\* match detect_loop(&board, generation, &mut board_history)
Detect ==
    /\ pc = "detect"
    /\ LET r == detect_loop(board, generation, board_history)
           key == flatten(board)
       IN /\ loop_start' = r.ret
          /\ board_history' = r.map
          /\ first_seen' = IF key \in DOMAIN first_seen THEN first_seen
                           ELSE map_insert(first_seen, key, generation).map
    /\ pc' = "match"
    /\ UNCHANGED << config, clock, fps, board, generation, running, screen, stats,
                    message >>

\* variant: the map is not replaced on a restart
RestartKeepsHistory ==
    /\ pc = "match"
    /\ loop_start # None
    /\ infinite
    /\ board' \in random_board(width, height)
    /\ generation' = 0
    /\ loop_start' = None
    /\ pc' = after_arm
    /\ UNCHANGED << config, clock, fps, running, screen, stats, message, board_history,
                    first_seen >>

\* Some(loop_start), args.infinite: reseed and start over
Restart ==
    /\ pc = "match"
    /\ loop_start # None
    /\ infinite
    /\ board' \in random_board(width, height)
    /\ generation' = 0
    /\ board_history' = EmptyMap
    /\ first_seen' = EmptyMap
    /\ loop_start' = None
    /\ pc' = after_arm
    /\ UNCHANGED << config, clock, fps, running, screen, stats, message >>

\* variant: the break is missing
BreakContinues ==
    /\ pc = "match"
    /\ loop_start # None
    /\ ~infinite
    /\ message' = IF ~quiet THEN loop_start ELSE message
    /\ loop_start' = None
    /\ pc' = after_arm
    /\ UNCHANGED << config, clock, fps, board, generation, board_history, running,
                    screen, stats, first_seen >>

\* Some(loop_start), not infinite: report and break
Break ==
    /\ pc = "match"
    /\ loop_start # None
    /\ ~infinite
    /\ message' = IF ~quiet THEN loop_start ELSE message
    /\ pc' = "done"
    /\ fps' = fps_report
    /\ UNCHANGED << config, clock, board, generation, board_history, running,
                    loop_start, screen, stats, first_seen >>

\* variant: the increment is missing
AdvanceWithoutCount ==
    /\ pc = "match"
    /\ loop_start = None
    /\ board' = iterate_board(board)
    /\ pc' = after_arm
    /\ UNCHANGED << config, clock, fps, generation, board_history, running, loop_start,
                    screen, stats, message, first_seen >>

\* variant: the flag is also polled before the board is advanced
AdvanceUnlessCancelled ==
    /\ pc = "match"
    /\ loop_start = None
    /\ IF running
       THEN /\ board' = iterate_board(board)
            /\ generation' = generation + 1
            /\ pc' = after_arm
       ELSE /\ pc' = "done"
            /\ UNCHANGED << board, generation >>
    /\ UNCHANGED << config, clock, fps, board_history, running, loop_start, screen,
                    stats, message, first_seen >>

\* None: iterate_board(&mut board); generation += 1
Advance ==
    /\ pc = "match"
    /\ loop_start = None
    /\ board' = iterate_board(board)
    /\ generation' = generation + 1
    /\ pc' = after_arm
    /\ UNCHANGED << config, clock, fps, board_history, running, loop_start, screen,
                    stats, message, first_seen >>

Next ==
    \/ CtrlC
    \/ LoopHead
    \/ Render
    \/ Stats
    \/ Detect
    \/ Restart
    \/ Break
    \/ Advance

Spec == Init /\ [][Next]_vars

(***************************************************************************)
(* detect_loop called again and again on one map, whatever its result.     *)
(***************************************************************************)
InitDetect ==
    /\ \E d \in {e \in Dimensions : e[1] * e[2] <= DetectCells} :
          width = d[1] /\ height = d[2]
    /\ quiet = FALSE
    /\ infinite = FALSE
    /\ frame_time = 0
    /\ now = 0
    /\ deadline = now + frame_time
    /\ fps = None
    /\ board \in BoardsOf(width, height)
    /\ generation = 0
    /\ board_history = EmptyMap
    /\ running = TRUE
    /\ loop_start = None
    /\ screen = << >>
    /\ stats = None
    /\ message = None
    /\ pc = "detect"
    /\ first_seen = EmptyMap

\* the caller keeps the map and passes the next board and generation
NextCall ==
    /\ pc = "match"
    /\ generation < MaxCalls
    /\ board' \in BoardsOf(width, height)
    /\ generation' = generation + 1
    /\ loop_start' = None
    /\ pc' = "detect"
    /\ UNCHANGED << config, clock, fps, board_history, running, screen, stats, message,
                    first_seen >>

NextDetect ==
    \/ Detect
    \/ NextCall

SpecDetect == InitDetect /\ [][NextDetect]_vars

(***************************************************************************)
(* The paced run: sleep_until (main.rs:312-325) and main.rs:161-164.       *)
(***************************************************************************)
\* the instants at which sleep_until(d) may return when called at instant t:
\* thread::sleep(d - t) never wakes before d and may wake after it
sleep_until(d, t) ==
    IF d >= t THEN d..(d + MaxLate) ELSE {t}

\* variant: the next deadline is counted from the wake-up
PaceFromWake ==
    /\ pc = "pace"
    /\ \E w \in sleep_until(deadline, now) :
          /\ w <= MaxTime
          /\ now' = w
          /\ deadline' = w + frame_time
    /\ pc' = "head"
    /\ UNCHANGED << config, fps, board, generation, board_history, running,
                    loop_start, screen, stats, message, first_seen >>

\* sleep_until(deadline); deadline += frame_time
Pace ==
    /\ pc = "pace"
    /\ \E w \in sleep_until(deadline, now) :
          /\ w <= MaxTime
          /\ now' = w
    /\ deadline' = deadline + frame_time
    /\ pc' = "head"
    /\ UNCHANGED << config, fps, board, generation, board_history, running,
                    loop_start, screen, stats, message, first_seen >>

\* time passes while the loop works
Tick ==
    /\ pc # "done"
    /\ now < MaxTime
    /\ now' = now + 1
    /\ UNCHANGED << config, deadline, fps, board, generation, board_history,
                    running, loop_start, screen, stats, message, pc,
                    first_seen >>

\* the state at main.rs:135 of a run with a finite frame rate
InitTimed ==
    /\ \E d \in {e \in Dimensions : e[1] * e[2] <= TimedCells} :
          width = d[1] /\ height = d[2]
    /\ quiet \in BOOLEAN
    /\ infinite \in BOOLEAN
    /\ frame_time \in 1..MaxFrameTime
    /\ now = 0
    /\ deadline = now + frame_time
    /\ fps = None
    /\ board \in random_board(width, height)
    /\ generation = 0
    /\ board_history = EmptyMap
    /\ running = TRUE
    /\ loop_start = None
    /\ screen = << >>
    /\ stats = None
    /\ message = None
    /\ pc = "head"
    /\ first_seen = EmptyMap

NextTimed ==
    \/ Next
    \/ Pace
    \/ Tick

SpecTimed == InitTimed /\ [][NextTimed]_vars

(***************************************************************************)
(* The run with --width 0 or --height 0: main.rs:93-103 takes the values   *)
(* as given.                                                               *)
(***************************************************************************)
ZeroDimensions ==
    {d \in (0..MaxZero) \X (0..MaxZero) : d[1] = 0 \/ d[2] = 0}

InitZero ==
    /\ \E d \in ZeroDimensions : width = d[1] /\ height = d[2]
    /\ quiet \in BOOLEAN
    /\ infinite \in BOOLEAN
    /\ frame_time = 0
    /\ now = 0
    /\ deadline = now + frame_time
    /\ fps = None
    /\ board \in random_board(width, height)
    /\ generation = 0
    /\ board_history = EmptyMap
    /\ running = TRUE
    /\ loop_start = None
    /\ screen = << >>
    /\ stats = None
    /\ message = None
    /\ pc = "head"
    /\ first_seen = EmptyMap

NextZero ==
    \/ Next
    \/ RenderPanics

SpecZero == InitZero /\ [][NextZero]_vars

(***************************************************************************)
(* The non-infinite run that no Ctrl-C interrupts.  The main thread is the *)
(* only thread of the loop and is always scheduled again: weak fairness of *)
(* its steps.                                                              *)
(***************************************************************************)
InitRun == Init /\ ~infinite

NextRun ==
    \/ LoopHead
    \/ Render
    \/ Stats
    \/ Detect
    \/ Break
    \/ Advance

SpecRun == InitRun /\ [][NextRun]_vars /\ WF_vars(NextRun)

(***************************************************************************)
(* The run of Spec with the main thread always scheduled again.  Nothing   *)
(* is assumed of the Ctrl-C handler: it may never run.                     *)
(***************************************************************************)
MainStep ==
    \/ LoopHead
    \/ Render
    \/ Stats
    \/ Detect
    \/ Restart
    \/ Break
    \/ Advance

InitFair == Init /\ width * height <= FairCells

SpecFair == InitFair /\ [][Next]_vars /\ WF_vars(MainStep)

(***************************************************************************)
(* Properties.                                                             *)
(***************************************************************************)
\* the steps of the match on detect_loop's result, told by the states alone
AdvanceStep == pc = "match" /\ loop_start = None /\ pc' = "head"
RestartStep == pc = "match" /\ loop_start # None /\ infinite /\ pc' # pc
BreakStep == pc = "match" /\ loop_start # None /\ ~infinite /\ pc' # pc

\* live cells among the Moore neighbours of (x, y) that lie inside the grid
LiveNeighbours(G, x, y) ==
    Cardinality({p \in (0..(row_len(G) - 1)) \X (0..(board_len(G) - 1)) :
                    /\ p # <<x, y>>
                    /\ p[1] - x \in -1..1
                    /\ p[2] - y \in -1..1
                    /\ G[p[2]][p[1]]})

\* candidate neighbours of (x, y): the Moore neighbours inside the grid
Candidates(G, x, y) ==
    {p \in (0..(row_len(G) - 1)) \X (0..(board_len(G) - 1)) :
        p # <<x, y>> /\ p[1] - x \in -1..1 /\ p[2] - y \in -1..1}

LifeSuccessor(G, G2) ==
    /\ DOMAIN G2 = DOMAIN G
    /\ \A y \in DOMAIN G :
          /\ DOMAIN G2[y] = DOMAIN G[y]
          /\ \A x \in DOMAIN G[y] :
                /\ G2[y][x] = (\/ G[y][x] /\ LiveNeighbours(G, x, y) \in {2, 3}
                               \/ ~G[y][x] /\ LiveNeighbours(G, x, y) = 3)
                /\ count_neighbors(G, y, x, 1) <= Cardinality(Candidates(G, x, y))

\* C1: every advance of the main loop replaces the grid by a grid of the same
\* dimensions in which a cell is alive iff it was alive with 2 or 3 live
\* neighbours or dead with exactly 3, the neighbours being the Moore
\* neighbours inside the grid of the previous generation (no wraparound).
C1_AdvanceIsLifeRule ==
    [][AdvanceStep => LifeSuccessor(board, board')]_vars

\* a 3x3 vertical triple has been advanced to the horizontal triple: births,
\* deaths and a survival, on corner, edge and interior cells
C1_Witness ==
    /\ width = 3 /\ height = 3
    /\ generation = 1 /\ pc = "head"
    /\ board = BoardWith(3, 3, {<<0, 1>>, <<1, 1>>, <<2, 1>>})
    /\ flatten(BoardWith(3, 3, {<<1, 0>>, <<1, 1>>, <<1, 2>>}))
          \in DOMAIN board_history

\* C2: detect_loop returns None for the first occurrence of a fingerprint and
\* the first-seen generation for every later occurrence (second, third, ...).
C2_FirstSeenReturned ==
    pc = "match" =>
        loop_start = IF first_seen[flatten(board)] < generation
                     THEN Some(first_seen[flatten(board)])
                     ELSE None

\* C3: after detect_loop is called with a fingerprint already in the map, the
\* map still holds the first-seen generation for it.
C3_MappingKept ==
    (pc = "match" /\ loop_start # None) =>
        board_history[flatten(board)] = first_seen[flatten(board)]

\* C4: the generation counter starts at 0, grows by exactly one in exactly the
\* steps that advance the grid, and is set back to 0 only by an
\* infinite-mode restart; no other step changes it.
C4_GenerationCounter ==
    /\ generation = 0
    /\ [][/\ AdvanceStep => generation' = generation + 1
          /\ generation' # generation =>
                \/ AdvanceStep
                \/ RestartStep /\ generation' = 0]_vars

\* a restarted run: the counter is back at 0 after having counted to 2 or more
C4_Witness ==
    /\ infinite
    /\ pc = "head" /\ generation = 0
    /\ \E st \in stats : st[1] >= 2

\* C5 as stated: in non-infinite mode a detected cycle is followed at once by
\* the report of the cycle-start generation and the stop, with the grid, the
\* counter and the screen left as they are.
C5_CycleStopReports ==
    [][BreakStep =>
          /\ pc' = "done"
          /\ message' = Some(first_seen[flatten(board)])
          /\ UNCHANGED << board, generation, screen >>]_vars

\* C5 amended: the same, the report being made unless quiet is set; after the
\* stop no step advances, counts or renders.
C5_CycleStopReportsUnlessQuiet ==
    [][/\ BreakStep =>
             /\ pc' = "done"
             /\ message' = IF quiet THEN None
                           ELSE Some(first_seen[flatten(board)])
             /\ UNCHANGED << board, generation, screen >>
       /\ pc = "done" =>
             pc' = "done" /\ UNCHANGED << board, generation, screen >>]_vars

\* a non-quiet run stopped on a cycle found at generation 2 or later
C5_Witness ==
    /\ ~infinite /\ ~quiet
    /\ pc = "done" /\ loop_start # None
    /\ generation >= 2
    /\ message = loop_start

\* C6: in infinite mode a detected cycle leads back to the loop head with
\* generation 0, an empty history and a grid of the configured size, and the
\* classification at generation 0 never reports a cycle.
C6_InfiniteReset ==
    /\ [][RestartStep =>
             /\ pc' = "head"
             /\ generation' = 0
             /\ board_history' = EmptyMap
             /\ board' \in BoardsOf(width, height)
             /\ UNCHANGED config]_vars
    /\ [][(pc = "detect" /\ generation = 0) => loop_start' = None]_vars

\* after a restart the new grid is the very grid whose repeat ended the
\* previous run (the screen still shows it) and the history is empty
C6_Witness ==
    /\ infinite
    /\ pc = "head" /\ generation = 0
    /\ board_history = EmptyMap
    /\ Len(screen) > 0
    /\ screen = print_board(board)

\* the grid a fingerprint of the run's dimensions was taken from
unflatten(k) ==
    [y \in 0..(height - 1) |-> [x \in 0..(width - 1) |-> k[y * width + x + 1]]]

\* grid, counter and history in step: the history holds one entry for each
\* of the generations 0..generation-1 and the grid is the successor of the
\* grid recorded last
InStep ==
    /\ Cardinality(DOMAIN board_history) = generation
    /\ {board_history[k] : k \in DOMAIN board_history} = 0..(generation - 1)
    /\ \A k \in DOMAIN board_history :
          board_history[k] = generation - 1 =>
              board = iterate_board(unflatten(k))

\* C7: the Ctrl-C flag is honoured at the loop condition only: whatever the
\* flag, an iteration under way runs on to the end of its advance or reset,
\* and a run stopped by the flag leaves grid, counter and history in step.
C7_CancelAtBoundary ==
    /\ []((pc = "done" /\ loop_start = None) => InStep)
    /\ [][/\ (pc' = "done" /\ pc # "done") =>
                \/ pc = "head" /\ ~running
                \/ BreakStep
          /\ (pc = "head" /\ pc' # pc) =>
                pc' = IF running THEN "render" ELSE "done"
          /\ (pc \in {"render", "stats", "detect", "match"} /\ ~running) =>
                running' = running]_vars

\* a run stopped by the flag after two complete iterations
C7_Witness ==
    /\ pc = "done" /\ ~running
    /\ loop_start = None
    /\ generation = 2
    /\ Len(screen) > 0
    /\ board # unflatten(CHOOSE k \in DOMAIN board_history :
                            board_history[k] = 1)

F0 == flatten(BlinkerV)
F1 == flatten(BlinkerH)

\* the run since the last (re)seed started from grid G
StartedFrom(G) ==
    /\ width = row_len(G) /\ height = board_len(G)
    /\ flatten(G) \in DOMAIN first_seen
    /\ first_seen[flatten(G)] = 0

\* C8: a run from the 5x5 vertical triple records F0 at generation 0, shows
\* the horizontal triple at generation 1 with F1 # F0 recorded and no cycle
\* reported, shows the vertical triple again at generation 2, and the
\* classification at generation 2 reports cycle start 0.
C8_Blinker ==
    /\ (pc = "match" /\ generation = 0 /\ board = BlinkerV) =>
          F0 # F1 /\ loop_start = None /\ board_history = (F0 :> 0)
    /\ (StartedFrom(BlinkerV) /\ generation = 1) =>
          /\ board = BlinkerH
          /\ pc = "match" =>
                loop_start = None /\ board_history = (F0 :> 0) @@ (F1 :> 1)
    /\ (StartedFrom(BlinkerV) /\ generation = 2) =>
          /\ board = BlinkerV
          /\ pc = "match" => loop_start = Some(0)
    /\ StartedFrom(BlinkerV) => generation <= 2

\* the blinker run at its classification of generation 2
C8_Witness ==
    /\ StartedFrom(BlinkerV)
    /\ generation = 2 /\ pc = "match"
    /\ board = BlinkerV
    /\ loop_start = Some(0)

\* C9: the 4x4 grid with the 2x2 block is a fixed point of the advance, and
\* a run from it reports cycle start 0 at the classification of generation 1.
C9_StillLife ==
    /\ board = Block => iterate_board(board) = board
    /\ (StartedFrom(Block) /\ generation >= 1) =>
          /\ generation = 1
          /\ board = Block
          /\ pc = "match" => loop_start = Some(0)

\* the block run at its classification of generation 1
C9_Witness ==
    /\ StartedFrom(Block)
    /\ generation = 1 /\ pc = "match"
    /\ board = Block
    /\ loop_start = Some(0)

\* the lines of a buffer: the stretches between its newlines
RECURSIVE SplitLines(_)
SplitLines(buf) ==
    IF \A i \in 1..Len(buf) : buf[i] # Newline THEN << buf >>
    ELSE LET n == CHOOSE i \in 1..Len(buf) :
                     buf[i] = Newline /\ \A j \in 1..(i - 1) : buf[j] # Newline
         IN << SubSeq(buf, 1, n - 1) >> \o SplitLines(SubSeq(buf, n + 1, Len(buf)))

\* the glyph of a pair of cells, top over bottom
Glyph(top, bottom) ==
    CASE top /\ bottom -> FullBlock
      [] top /\ ~bottom -> UpperHalf
      [] ~top /\ bottom -> LowerHalf
      [] ~top /\ ~bottom -> Blank

RenderedAs(G, buf) ==
    LET h == board_len(G)
        w == row_len(G)
        lines == SplitLines(buf)
    IN /\ Len(lines) = (h + 1) \div 2
       /\ 2 * Len(lines) \in {h, h + 1}
       /\ \A i \in 0..(Len(lines) - 1) :
             /\ Len(lines[i + 1]) = w
             /\ \A x \in 0..(w - 1) :
                   lines[i + 1][x + 1] =
                       IF 2 * i + 1 < h
                       THEN Glyph(G[2 * i][x], G[2 * i + 1][x])
                       ELSE IF G[h - 1][x] THEN UpperHalf ELSE Blank

\* C10: the buffer print_board queued for the grid has ceil(h/2) lines of w
\* glyphs, the glyph at column x of line i given by the cells (x,2i) and
\* (x,2i+1), and for an odd h by the cell (x,h-1) alone on the last line.
C10_RenderedBuffer ==
    pc \in {"stats", "detect", "match"} => RenderedAs(board, screen)

\* a grid of odd height and more than one line rendered with all four glyphs
C10_Witness ==
    /\ pc = "stats"
    /\ height = 3 /\ width >= 2
    /\ {screen[i] : i \in 1..Len(screen)} =
          {FullBlock, UpperHalf, LowerHalf, Blank, Newline}
    /\ screen[Len(screen)] = UpperHalf

\* C11: with a non-zero frame interval every iteration but the first is
\* preceded by a block on the deadline, which never returns before it; each
\* block moves the deadline on by exactly the interval, whatever the time of
\* the wake-up and however long the iteration took, so the deadlines are
\* start + k * interval and the loop never runs ahead of them.
C11_Pacing ==
    /\ deadline = now + frame_time
    /\ []((deadline - now) <= frame_time /\ deadline % frame_time = 0)
    /\ [][/\ (pc = "pace" /\ pc' # pc) =>
                /\ now' >= deadline
                /\ deadline' = deadline + frame_time
                /\ pc' = "head"
          /\ (pc' = "head" /\ pc # "head") => pc = "pace"
          /\ deadline' # deadline => pc = "pace"
          /\ now' >= now]_vars

\* the second block of a run has returned late and the third deadline is
\* still start + 3 * interval
C11_Witness ==
    /\ pc = "head" /\ generation = 2
    /\ deadline = 3 * frame_time
    /\ now > deadline - frame_time

\* C12: a configuration with width 0 or height 0 is rejected before the
\* simulation starts: nothing is rendered, classified or advanced for it.
C12_ZeroRejected ==
    (width = 0 \/ height = 0) =>
        /\ pc \notin {"stats", "detect", "match", "pace", "panicked"}
        /\ screen = << >>
        /\ board_history = EmptyMap
        /\ generation = 0

\* C13: no step takes a fingerprint out of the history, except the
\* infinite-mode restart, which empties it.
C13_HistoryKept ==
    [][\/ DOMAIN board_history \subseteq DOMAIN board_history'
       \/ RestartStep /\ board_history' = EmptyMap]_vars

\* a restart has just emptied a history of three or more entries
C13_Witness ==
    /\ infinite /\ ~quiet
    /\ pc = "head" /\ generation = 0
    /\ board_history = EmptyMap
    /\ \E st \in stats : st[1] >= 3

\* C14: with quiet set no statistics, no "started looping" line and no FPS
\* line is ever queued; without quiet the statistics of the current grid and
\* generation are queued in every iteration, after the grid is rendered and
\* before it is classified.
C14_Quiet ==
    /\ [](quiet => stats = None /\ message = None /\ fps = None)
    /\ []((~quiet /\ pc \in {"detect", "match"}) =>
             /\ stats = Some(print_stats(board, generation))
             /\ screen = print_board(board))
    /\ [][stats' # stats =>
             /\ ~quiet
             /\ pc = "stats" /\ pc' = "detect"
             /\ screen = print_board(board)]_vars

\* a quiet run with an unlimited frame rate has stopped on a cycle: both
\* final lines would be due without quiet
C14_Witness ==
    /\ quiet /\ frame_time = 0
    /\ pc = "done" /\ loop_start # None
    /\ generation >= 2
    /\ fps = None

\* C15: in every iteration the grid is rendered, then classified, and is
\* replaced only after its classification (advanced only after one that
\* found no cycle); a grid is rendered once, when the loop is entered for
\* it, so every classified grid, the repeating one included, is on the
\* screen exactly once before its classification.
C15_RenderThenClassify ==
    /\ [](pc \in {"stats", "detect", "match"} => screen = print_board(board))
    /\ [][/\ (pc' = "render" /\ pc # "render") => pc = "head"
          /\ screen' # screen => pc = "render"
          /\ pc = "render" => pc' \in {"render", "stats"}
          /\ (pc' = "detect" /\ pc # "detect") => pc = "stats"
          /\ board_history' # board_history =>
                pc = "detect" \/ RestartStep
          /\ (pc' = "head" /\ pc # "head") =>
                pc = "match" /\ (AdvanceStep \/ RestartStep)
          /\ (board' # board \/ generation' # generation) => pc = "match"
          /\ (pc = "match" /\ loop_start # None /\ ~infinite) =>
                board' = board
          /\ (pc = "match" /\ loop_start # None /\ infinite) =>
                generation' \in {generation, 0}]_vars

\* the repeating grid of generation 2 or later is on the screen when its
\* classification has found the cycle
C15_Witness ==
    /\ pc = "match" /\ loop_start # None
    /\ generation >= 2
    /\ Len(screen) > 1
    /\ screen = print_board(board)

\* the recorded fingerprints are those of successive generations of one run
RecordedRun ==
    \A k1 \in DOMAIN first_seen : \A k2 \in DOMAIN first_seen :
        first_seen[k2] = first_seen[k1] + 1 =>
            k2 = flatten(iterate_board(unflatten(k1)))

\* n pairwise distinct grids are recorded, one for each generation below n
DistinctUpTo(n) ==
    /\ Cardinality(DOMAIN first_seen) = n
    /\ {first_seen[k] : k \in DOMAIN first_seen} = 0..(n - 1)
    /\ RecordedRun

\* C16: a classification reports a cycle at the first generation g whose
\* grid equals the grid of an earlier generation, the grids of 0..g-1 being
\* pairwise distinct, and the start k it reports is the one earlier
\* generation with that grid, k < g; in non-infinite mode the run stops
\* there, with k as the reported start.
C16_FirstRepeat ==
    /\ (pc = "match" /\ loop_start = None) =>
          /\ first_seen[flatten(board)] = generation
          /\ DistinctUpTo(generation + 1)
    /\ (pc \in {"match", "done"} /\ loop_start # None) =>
          /\ DistinctUpTo(generation)
          /\ \E k \in 0..(generation - 1) :
                /\ loop_start = Some(k)
                /\ first_seen[flatten(board)] = k
                /\ (pc = "done" /\ ~quiet) => message = Some(k)
    /\ (pc = "done" /\ loop_start # None) => ~infinite
    /\ (~infinite /\ pc \in {"head", "render", "stats", "detect"}) =>
          DistinctUpTo(generation)

\* a run stopped on a cycle that starts after two or more generations
C16_Witness ==
    /\ ~infinite /\ ~quiet
    /\ pc = "done"
    /\ \E k \in loop_start : k >= 2 /\ generation > k
    /\ message = loop_start

\* C17: at the loop head the history holds exactly `generation` entries,
\* the fingerprint of the grid of generation k mapped to k for each k below
\* `generation`, each grid the successor of the one before and the current
\* grid the successor of the last; no entry for the current generation has
\* been made yet.
C17_HistoryAtHead ==
    pc = "head" =>
        /\ Cardinality(DOMAIN board_history) = generation
        /\ {board_history[k] : k \in DOMAIN board_history}
              = 0..(generation - 1)
        /\ \A k1 \in DOMAIN board_history :
              /\ board_history[k1] # generation
              /\ Len(k1) = width * height
              /\ \A k2 \in DOMAIN board_history :
                    board_history[k2] = board_history[k1] + 1 =>
                        unflatten(k2) = iterate_board(unflatten(k1))
              /\ board_history[k1] = generation - 1 =>
                    board = iterate_board(unflatten(k1))

\* at the loop head of generation 3 or later the current grid equals a
\* recorded one, and its own entry is still to be made
C17_Witness ==
    /\ pc = "head" /\ running
    /\ generation >= 3
    /\ flatten(board) \in DOMAIN board_history

\* C18: a non-infinite run that is not cancelled reaches the end of the
\* loop, and its generation counter never exceeds 2^(width * height).
C18_Terminates ==
    /\ [](generation <= 2 ^ (width * height))
    /\ <>(pc = "done")

\* a run that has stopped after exactly 2^(width * height) advances
C18_Witness ==
    /\ pc = "done" /\ loop_start # None
    /\ generation = 2 ^ (width * height)

\* C19: once the flag is cleared by the handler it stays cleared, the render
\* point is not entered again (so at most the frame already due is drawn),
\* and the loop is left; in infinite mode the loop is left in no other way.
C19_CancelStops ==
    /\ [][~running => ~running']_vars
    /\ [][(~running /\ pc # "render") => pc' # "render"]_vars
    /\ [](infinite /\ pc = "done" => ~running)
    /\ (~running ~> pc = "done")

\* an infinite-mode run stopped by the flag after it had drawn frames
C19_Witness ==
    /\ infinite
    /\ pc = "done" /\ ~running
    /\ generation >= 1
    /\ Len(screen) > 0

====
